---- MODULE Spec2Model ----
(***************************************************************************)
(* Name resolution of jedi/evaluate/finder.py.                             *)
(*                                                                         *)
(* The module holds one state machine per part of the finder:              *)
(*   SpecChain   global_names_dict_generator (the scope chain)             *)
(*   SpecLookup  NameFinder.names_dict_lookup / filter_definition_names    *)
(*   SpecPrivate the same handlers on private (`__x`) identifiers          *)
(*   SpecFind    NameFinder.find (filter_name, _names_to_types,            *)
(*               diagnostics, descriptors)                                 *)
(*   SpecResolve _name_to_types under its memoize_default wrapper          *)
(*   SpecParam   _eval_param                                               *)
(*   SpecGlobal  the GlobalStmt branch of _name_to_types                   *)
(* Every specification leaves the variables of the other parts untouched.  *)
(***************************************************************************)
EXTENDS Integers, Sequences, FiniteSets, TLC

VARIABLES
    \* ---- global_names_dict_generator
    chScopes,    \* the parent chain, starting scope first: [kind, nd]
    chCaller,    \* the position argument as the caller passed it
    chBuiltin,   \* number of names dictionaries compiled.builtin yields
    chIdx,       \* `scope`: index into chScopes; Len + 1 is None
    chInFunc,    \* `in_func`
    chPos,       \* `position`
    chOut,       \* pairs yielded so far: [scope, dict, pos]
    chPc,        \* "walk" | "builtins" | "done"
    \* ---- NameFinder.names_dict_lookup
    lkNames,     \* names_dict[search_str], [] when the key is missing
    lkCutoff,    \* the position argument
    lkCtx,       \* what the finder and the names' scope are (see LookupCtx)
    lkFiltered,  \* what filter_definition_names returned
    lkResult,    \* the returned list
    lkConsulted, \* start_pos of the names flow_analysis.break_check was asked about
    lkPc,        \* "call" | "done"
    \* ---- NameFinder.find
    fdIn,        \* the finder, its arguments and what its collaborators answer
    fdNames,     \* `names`: what filter_name returned
    fdConsumed,  \* how many pairs of `scopes` filter_name took
    fdTypes,     \* `types`: what _names_to_types returned
    fdCalls,     \* the methods _check_getattr executed on the instance, in order
    fdDiag,      \* the reports handed to jedi.evaluate.analysis
    fdResult,    \* what find returned
    fdPc,        \* "filter_name" | "names_to_types" | "report" | "done"
    \* ---- _name_to_types under memoize_default
    rsProg,      \* the definitions: what each one's statement evaluates
    rsStart,     \* the name the top-level call resolves
    rsMemo,      \* evaluator.memoize_cache[_name_to_types]
    rsStack,     \* the calls of _name_to_types in progress, innermost last
    rsHits,      \* the calls answered from the memo: [key, val, running]
    rsResult,    \* what the top-level call returned
    rsPc,        \* "call" | "run" | "done"
    \* ---- _eval_param
    epIn,        \* the parameter, the scope and what the collaborators answer
    epUsed,      \* the sources whose values went into the result, in order
    epResult,    \* what _eval_param returned
    epPc,        \* "call" | "done"
    \* ---- _name_to_types on a name defined by a global statement
    glIn,        \* the scopes around the statement and what find_types gives in each
    glAsked,     \* the scope find_types was called with (index into glIn.scopes)
    glResult,    \* what _name_to_types returned
    glPc         \* "call" | "done"

chainVars == <<chScopes, chCaller, chBuiltin, chIdx, chInFunc, chPos, chOut, chPc>>

lookupVars == <<lkNames, lkCutoff, lkCtx, lkFiltered, lkResult, lkConsulted, lkPc>>

findVars == <<fdIn, fdNames, fdConsumed, fdTypes, fdCalls, fdDiag, fdResult, fdPc>>

resolveVars == <<rsProg, rsStart, rsMemo, rsStack, rsHits, rsResult, rsPc>>

paramVars == <<epIn, epUsed, epResult, epPc>>

globalVars == <<glIn, glAsked, glResult, glPc>>

vars == <<chainVars, lookupVars, findVars, resolveVars, paramVars, globalVars>>

\* what a step of one part leaves alone: the variables of the other parts
ChainFrame == UNCHANGED <<lookupVars, findVars, resolveVars, paramVars, globalVars>>
LookupFrame == UNCHANGED <<chainVars, findVars, resolveVars, paramVars, globalVars>>
FindFrame == UNCHANGED <<chainVars, lookupVars, resolveVars, paramVars, globalVars>>
ResolveFrame == UNCHANGED <<chainVars, lookupVars, findVars, paramVars, globalVars>>
ParamFrame == UNCHANGED <<chainVars, lookupVars, findVars, resolveVars, globalVars>>
GlobalFrame == UNCHANGED <<chainVars, lookupVars, findVars, resolveVars, paramVars>>

(***************************************************************************)
(* Bounds of the model.                                                    *)
(***************************************************************************)
MaxDepth == 3
MaxDicts == 2
MaxPos == 2
MaxNames == 3
MaxChain == 2
MaxFlow == 2
MaxDefs == 2
MaxNest == 2

\* `position = None` (finder.py line 542); real positions are 1, 2, ...
NonePos == 0

RECURSIVE SeqsUpTo(_, _)
SeqsUpTo(S, n) ==
    IF n = 0 THEN {<<>>}
    ELSE LET shorter == SeqsUpTo(S, n - 1)
         IN shorter \cup {Append(s, x) : s \in {t \in shorter : Len(t) = n - 1}, x \in S}

RECURSIVE Concat(_)
Concat(ss) == IF ss = <<>> THEN <<>> ELSE Head(ss) \o Concat(Tail(ss))

Range(s) == {s[i] : i \in 1..Len(s)}

(***************************************************************************)
(* global_names_dict_generator                                             *)
(***************************************************************************)
\* scope.type of the scopes a parent chain holds below its module.  A
\* CompiledObject has no `type` attribute value but a type() method; the
\* model names a compiled class "compiled_class".
InnerKinds == {"funcdef", "classdef", "lambda", "compiled_class"}

ScopeRec(k, n) == [kind |-> k, nd |-> n]

\* scope.type == 'classdef' or isinstance(scope, CompiledObject) and scope.type() == 'class'
IsClassScope(kind) == kind = "classdef" \/ kind = "compiled_class"

\* the guard of the yielding block: not (<class scope> and in_func)
ScopeIsSkippedNoFunc(kind, inFunc) == FALSE
ScopeIsSkipped(kind, inFunc) == IsClassScope(kind) /\ inFunc

\* for names_dict in scope.names_dicts(True): yield names_dict, position
ScopePairs(idx, nd, pos) == [d \in 1..nd |-> [scope |-> idx, dict |-> d, pos |-> pos]]

\* if scope.type == 'funcdef': in_func = True; position = None
PositionAfterKept(kind, pos) == pos
PositionAfter(kind, pos) == IF kind = "funcdef" THEN NonePos ELSE pos

InFuncAfter(kind, inFunc) == IF kind = "funcdef" THEN TRUE ELSE inFunc

\* for names_dict in compiled.builtin.names_dicts(True): yield names_dict, None
BuiltinPairsWithPos(nd, pos) == [d \in 1..nd |-> [scope |-> 0, dict |-> d, pos |-> pos]]
BuiltinPairs(nd, pos) == [d \in 1..nd |-> [scope |-> 0, dict |-> d, pos |-> NonePos]]

ChainInit ==
    /\ chScopes \in {Append(s, ScopeRec("file_input", n)) :
                        s \in SeqsUpTo({ScopeRec(k, 1) : k \in InnerKinds}, MaxDepth),
                        n \in 1..MaxDicts}
    /\ chCaller \in {NonePos} \cup 1..MaxPos
    /\ chBuiltin \in 1..MaxDicts
    /\ chIdx = 1
    /\ chInFunc = FALSE
    /\ chPos = chCaller
    /\ chOut = <<>>
    /\ chPc = "walk"

\* the values the chain's variables keep in the other specifications
ChainIdle ==
    /\ chScopes = <<>>
    /\ chCaller = NonePos
    /\ chBuiltin = 1
    /\ chIdx = 1
    /\ chInFunc = FALSE
    /\ chPos = NonePos
    /\ chOut = <<>>
    /\ chPc = "idle"

\* one iteration of `while scope is not None`
ChainScope ==
    /\ chPc = "walk"
    /\ chIdx <= Len(chScopes)
    /\ LET sc == chScopes[chIdx]
       IN IF ScopeIsSkipped(sc.kind, chInFunc)
          THEN UNCHANGED <<chOut, chInFunc, chPos>>
          ELSE /\ chOut' = chOut \o ScopePairs(chIdx, sc.nd, chPos)
               /\ chInFunc' = InFuncAfter(sc.kind, chInFunc)
               /\ chPos' = PositionAfter(sc.kind, chPos)
    \* scope = er.wrap(evaluator, scope.get_parent_scope())
    /\ chIdx' = chIdx + 1
    /\ UNCHANGED <<chScopes, chCaller, chBuiltin, chPc>>
    /\ ChainFrame

\* the loop's exit: scope is None
ChainLeaveLoop ==
    /\ chPc = "walk"
    /\ chIdx > Len(chScopes)
    /\ chPc' = "builtins"
    /\ UNCHANGED <<chScopes, chCaller, chBuiltin, chIdx, chInFunc, chPos, chOut>>
    /\ ChainFrame

\* Add builtins to the global scope.
ChainBuiltins ==
    /\ chPc = "builtins"
    /\ chOut' = chOut \o BuiltinPairs(chBuiltin, chPos)
    /\ chPc' = "done"
    /\ UNCHANGED <<chScopes, chCaller, chBuiltin, chIdx, chInFunc, chPos>>
    /\ ChainFrame

ChainNext == ChainScope \/ ChainLeaveLoop \/ ChainBuiltins

(***************************************************************************)
(* filter_definition_names and NameFinder.names_dict_lookup                *)
(***************************************************************************)
\* A Name of the tree: start_pos, is_definition(), the kind of
\* get_definition(), the pr.Class reached from it by get_parent_scope()
\* ("none" when there is none), the verdict flow_analysis.break_check gives
\* for its statement, whether it was replaced by the execution's param
\* (get_param) or by its wrapper's name (_clean_names), and the values the
\* evaluator gives for its definition.
NameRec(p, d, k, c, v) ==
    [pos |-> p, isdef |-> d, kind |-> k, cls |-> c, verdict |-> v, bound |-> FALSE,
     wrapped |-> FALSE, vals |-> <<>>]

Verdicts == {"REACHABLE", "UNREACHABLE", "UNSURE"}

\* The finder and the scope of the names:
\*   selfInstance    isinstance(self.scope, er.Instance)
\*   nameScope       what stmt.get_parent_scope() is: "source" (module, class,
\*                   function), "funcexec", "lambdaexec" (a FunctionExecution
\*                   whose base is a LambdaWrapper), "instance", "compiled"
\*   compiledName    the names are CompiledName (or InstanceName of one)
\*   parentCompiled  isinstance(stmt.parent, compiled.CompiledObject)
\*   private         the identifier starts with `__` and does not end with it
\*   instParent      scope.get_parent_scope() is an er.Instance
\*   instClass       instance.base.base of that instance
\*   originCls       the class whose method holds the reference ("none":
\*                   the reference is outside every class)
LookupCtx(si, ns, cn, pc, pr, ip, ic, oc) ==
    [selfInstance |-> si, nameScope |-> ns, compiledName |-> cn, parentCompiled |-> pc,
     private |-> pr, instParent |-> ip, instClass |-> ic, originCls |-> oc]

RemoveAt(s, i) == SubSeq(s, 1, i - 1) \o SubSeq(s, i + 1, Len(s))

Reverse(s) == [i \in 1..Len(s) |-> s[Len(s) + 1 - i]]

\* sorted(names, key=lambda name: name.start_pos): a stable insertion sort
RECURSIVE InsertByPos(_, _)
InsertByPos(sorted, n) ==
    IF sorted = <<>> THEN <<n>>
    ELSE IF sorted[Len(sorted)].pos <= n.pos THEN Append(sorted, n)
    ELSE Append(InsertByPos(SubSeq(sorted, 1, Len(sorted) - 1), n), sorted[Len(sorted)])

RECURSIVE SortedByPos(_)
SortedByPos(names) ==
    IF names = <<>> THEN <<>>
    ELSE InsertByPos(SortedByPos(SubSeq(names, 1, Len(names) - 1)), names[Len(names)])

\* filter_private_variable(scope, search_name): the instance is the parent
\* scope of the first name's scope, coming_from the class around the name
FilterPrivateVariableAnyInstance(ctx, name) == ctx.instParent
FilterPrivateVariable(ctx, name) == ctx.instParent /\ ctx.instClass # name.cls

\* for name in names: ... names.remove(name)   -- the list iterated over is the
\* list removed from: after a removal the iterator's index has moved past the
\* element that took the removed one's place
RECURSIVE RemovePrivate(_, _, _)
RemovePrivate(ctx, names, i) ==
    IF i > Len(names) THEN names
    ELSE IF ctx.private /\ FilterPrivateVariable(ctx, names[i])
         THEN RemovePrivate(ctx, RemoveAt(names, i), i + 1)
         ELSE RemovePrivate(ctx, names, i + 1)

\* pr.filter_after_position(names, position)
FilterAfterPosition(names, position) ==
    IF position = NonePos THEN names
    ELSE SelectSeq(names, LAMBDA n : n.pos < position)

\* isinstance(stmt, (pr.CompFor, pr.Lambda, pr.GlobalStmt))
IsOrderFree(kind) == kind \in {"comp_for", "lambda", "global_stmt"}

FilterDefinitionNames(ctx, names, position) ==
    IF IsOrderFree(names[1].kind) THEN names
    ELSE LET kept == RemovePrivate(ctx, names, 1)
             placed == IF ctx.nameScope # "lambdaexec"
                       THEN FilterAfterPosition(kept, position)
                       ELSE kept
         IN SelectSeq(placed, LAMBDA n : n.isdef)

\* the tests before the flow check that append the name and `continue`
AlwaysKept(ctx) ==
    \/ ctx.selfInstance /\ ctx.nameScope # "instance"
    \/ ctx.nameScope = "compiled"
    \/ ctx.compiledName

\* if check is flow_analysis.REACHABLE: break
BreaksSearchNever(check) == FALSE
BreaksSearch(check) == check = "REACHABLE"

\* if check is not flow_analysis.UNREACHABLE: last_names.append(name)
KeepsName(check) == check # "UNREACHABLE"

\* the loop over reversed(sorted(names)), from index i on; acc is
\* [names |-> last_names, consulted |-> ...]
RECURSIVE LookupLoop(_, _, _, _)
LookupLoop(ctx, cands, i, acc) ==
    IF i > Len(cands) THEN acc
    ELSE LET name == cands[i]
         IN IF AlwaysKept(ctx)
            THEN LookupLoop(ctx, cands, i + 1, [acc EXCEPT !.names = Append(@, name)])
            ELSE IF ctx.parentCompiled
            THEN LookupLoop(ctx, cands, i + 1, acc)
            ELSE LET check == name.verdict
                     seen == [names |-> IF KeepsName(check)
                                        THEN Append(acc.names, name) ELSE acc.names,
                              consulted |-> acc.consulted \cup {name.pos}]
                 IN IF BreaksSearch(check) THEN seen
                    ELSE LookupLoop(ctx, cands, i + 1, seen)

\* get_param(scope, el)
GetParam(name) == IF name.kind = "param" THEN [name EXCEPT !.bound = TRUE] ELSE name

IsFunctionExecution(ctx) == ctx.nameScope \in {"funcexec", "lambdaexec"}

\* names_dict_lookup: [filtered, names, consulted]
NamesDictLookup(ctx, names, position) ==
    IF names = <<>> THEN [filtered |-> <<>>, names |-> <<>>, consulted |-> {}]
    ELSE LET filtered == FilterDefinitionNames(ctx, names, position)
             cands == Reverse(SortedByPos(filtered))
             got == LookupLoop(ctx, cands, 1, [names |-> <<>>, consulted |-> {}])
         IN [filtered |-> filtered,
             names |-> IF cands # <<>> /\ IsFunctionExecution(ctx)
                       THEN [i \in 1..Len(got.names) |-> GetParam(got.names[i])]
                       ELSE got.names,
             consulted |-> got.consulted]

\* the names a dictionary holds for one identifier, in textual order
NameVariants(classes, kinds, verdicts) ==
    {[d |-> d, k |-> k, c |-> c, v |-> v] :
        d \in BOOLEAN, k \in kinds, c \in classes, v \in verdicts}

PlaceNames(vs) == [i \in 1..Len(vs) |-> NameRec(i, vs[i].d, vs[i].k, vs[i].c, vs[i].v)]

\* an occurrence that is not a definition is a use inside a statement
PlainVariants ==
    {x \in NameVariants({"none"}, {"expr_stmt", "param", "import", "global_stmt"}, Verdicts) :
        ~x.d => (x.k = "expr_stmt" /\ x.v # "UNSURE")}

PlainContexts ==
    {LookupCtx(FALSE, ns, FALSE, FALSE, FALSE, FALSE, "none", "none") :
        ns \in {"source", "funcexec", "lambdaexec", "compiled"}}
    \cup {LookupCtx(TRUE, ns, FALSE, FALSE, FALSE, FALSE, "none", "none") :
        ns \in {"source", "instance"}}
    \cup {LookupCtx(TRUE, "instance", TRUE, FALSE, FALSE, FALSE, "none", "none"),
          LookupCtx(FALSE, "source", FALSE, TRUE, FALSE, FALSE, "none", "none")}

LookupStart ==
    /\ lkFiltered = <<>>
    /\ lkResult = <<>>
    /\ lkConsulted = {}
    /\ lkPc = "call"

\* the lists of MaxNames names go with the source scopes and executions, the
\* shorter lists with every context
PlainContextsFor(vs) ==
    IF Len(vs) < MaxNames THEN PlainContexts
    ELSE {c \in PlainContexts :
            ~c.selfInstance /\ ~c.parentCompiled /\ c.nameScope # "compiled"}

LookupInit ==
    /\ \E vs \in SeqsUpTo(PlainVariants, MaxNames) :
          /\ lkNames = PlaceNames(vs)
          /\ lkCtx \in PlainContextsFor(vs)
    /\ lkCutoff \in {NonePos} \cup 2..(MaxPos + 1)
    /\ LookupStart

\* private identifiers: attributes assigned in methods, looked up on an
\* instance of class "C" or of its subclass "D"
PrivateVariants == NameVariants({"C", "D"}, {"expr_stmt"}, {"REACHABLE", "UNSURE"})

PrivateContexts ==
    {LookupCtx(TRUE, "source", FALSE, FALSE, TRUE, ip, ic, oc) :
        ip \in BOOLEAN, ic \in {"C", "D"}, oc \in {"none", "C", "D"}}

PrivateInit ==
    /\ lkNames \in {PlaceNames(vs) : vs \in SeqsUpTo(PrivateVariants, MaxNames)}
    /\ lkCutoff \in {NonePos} \cup 2..(MaxPos + 1)
    /\ lkCtx \in PrivateContexts
    /\ LookupStart

LookupIdle ==
    /\ lkNames = <<>>
    /\ lkCutoff = NonePos
    /\ lkCtx = LookupCtx(FALSE, "source", FALSE, FALSE, FALSE, FALSE, "none", "none")
    /\ lkFiltered = <<>>
    /\ lkResult = <<>>
    /\ lkConsulted = {}
    /\ lkPc = "idle"

\* one call of names_dict_lookup
Lookup ==
    /\ lkPc = "call"
    /\ LET r == NamesDictLookup(lkCtx, lkNames, lkCutoff)
       IN /\ lkFiltered' = r.filtered
          /\ lkResult' = r.names
          /\ lkConsulted' = r.consulted
    /\ lkPc' = "done"
    /\ UNCHANGED <<lkNames, lkCutoff, lkCtx>>
    /\ LookupFrame

(***************************************************************************)
(* NameFinder.find: filter_name, _names_to_types, the report, descriptors  *)
(***************************************************************************)
\* the context names_dict_lookup runs in for a finder on scope `scope`
FindLookupCtx(scope) ==
    LookupCtx(scope = "instance",
              IF scope = "funcexec" THEN "funcexec" ELSE "source",
              FALSE, FALSE, FALSE, FALSE, "none", "none")

\* _clean_names: a name whose parent is a pr.Function, pr.Class or pr.Module
\* is replaced by the name of the wrapped definition
CleanNames(names) ==
    [i \in 1..Len(names) |->
        IF names[i].kind \in {"funcdef", "classdef", "file_input"}
        THEN [names[i] EXCEPT !.wrapped = TRUE]
        ELSE names[i]]

\* for names_dict, position in names_dicts: ...; if names: break
RECURSIVE FilterNameLoopAll(_, _, _)
FilterNameLoopAll(ctx, chain, i) ==
    IF i > Len(chain) THEN [names |-> <<>>, consumed |-> Len(chain)]
    ELSE LET names == NamesDictLookup(ctx, chain[i].names, chain[i].cutoff).names
             rest == FilterNameLoopAll(ctx, chain, i + 1)
         IN [names |-> names \o rest.names, consumed |-> rest.consumed]

RECURSIVE FilterNameLoop(_, _, _)
FilterNameLoop(ctx, chain, i) ==
    IF i > Len(chain) THEN [names |-> <<>>, consumed |-> Len(chain)]
    ELSE LET names == NamesDictLookup(ctx, chain[i].names, chain[i].cutoff).names
         IN IF names # <<>> THEN [names |-> names, consumed |-> i]
            ELSE FilterNameLoop(ctx, chain, i + 1)

\* if not search_global and self.scope.isinstance(er.Function): return the
\* magic function names that equal the identifier
IsMagicLookup(in) == ~in.global /\ in.scope = "function"

FilterName(in) ==
    IF IsMagicLookup(in)
    THEN [names |-> in.magic, consumed |-> 0]
    ELSE LET r == FilterNameLoop(FindLookupCtx(in.scope), in.chain, 1)
         IN [names |-> CleanNames(r.names), consumed |-> r.consumed]

\* evaluator.execute(typ) of a class: its instance
Execute(cls) == IF cls = "A" THEN <<"inst_A">> ELSE <<"inst_B">>

RECURSIVE ExecuteAll(_)
ExecuteAll(classes) ==
    IF classes = <<>> THEN <<>> ELSE Execute(Head(classes)) \o ExecuteAll(Tail(classes))

\* A condition: its shape ("isinstance": a power node `isinstance(<e>, <c>)`
\* with two positional arguments; "keyword": the same call with a keyword
\* argument; "other_call": a call of another name; "not_power": any other
\* expression), the code of the first argument and the classes the second
\* argument evaluates to.
CondRec(shape, text, classes) == [shape |-> shape, text |-> text, classes |-> classes]

NoCond == CondRec("not_power", "x", <<>>)

\* _check_isinstance_type(evaluator, element, search_name)
CheckIsinstanceType(cond, refText) ==
    IF cond.shape = "isinstance" /\ cond.text = refText
    THEN ExecuteAll(cond.classes)
    ELSE <<>>

IsScopeNode(kind) == kind \in {"funcdef", "classdef", "file_input"}

\* for ass in reversed(flow.asserts): ...
RECURSIVE AssertLoop(_, _, _, _)
AssertLoop(asserts, i, pos, refText) ==
    IF i < 1 THEN <<>>
    ELSE IF pos = NonePos \/ asserts[i].pos > pos
         THEN AssertLoop(asserts, i - 1, pos, refText)
         ELSE LET result == CheckIsinstanceType(asserts[i].cond, refText)
              IN IF result # <<>> THEN result
                 ELSE AssertLoop(asserts, i - 1, pos, refText)

\* check_flow_information(evaluator, flow, search_name_part, pos); None and []
\* are both the empty sequence
CheckFlowInformation(setting, flow, pos, refText) ==
    IF ~setting THEN <<>>
    ELSE LET fromAsserts == IF IsScopeNode(flow.kind)
                            THEN AssertLoop(flow.asserts, Len(flow.asserts), pos, refText)
                            ELSE <<>>
         IN IF flow.kind \in {"if_stmt", "while_stmt"}
            THEN CheckIsinstanceType(flow.cond, refText)
            ELSE fromAsserts

\* the while loop of _names_to_types over flow_scope, flow_scope.parent, ...
RECURSIVE FlowWalk(_, _)
FlowWalk(in, i) ==
    IF i > Len(in.flows) \/ in.inExec THEN <<>>
    ELSE LET n == CheckFlowInformation(in.setting, in.flows[i], in.position, "x")
         IN IF n # <<>> THEN n ELSE FlowWalk(in, i + 1)

IsSourceName(in) == in.nameStr \in {"name", "param_name"}

\* _name_to_types as find sees it: every kind of definition but a function or
\* class header is evaluated by a collaborator (name.vals); a header is the
\* value itself
EvaluatedKinds ==
    {"for_stmt", "comp_for", "param", "expr_stmt", "with_stmt", "import",
     "global_stmt", "try_stmt"}

NameToTypes(name) == IF name.kind \in EvaluatedKinds THEN name.vals ELSE <<name.kind>>

RECURSIVE GeneralTypes(_)
GeneralTypes(names) ==
    IF names = <<>> THEN <<>> ELSE NameToTypes(Head(names)) \o GeneralTypes(Tail(names))

\* _check_getattr(inst): a missing method raises KeyError, which is ignored
CheckGetattr(in) ==
    LET first == IF in.getattr.found THEN in.getattr.res ELSE <<>>
    IN IF first # <<>> THEN first
       ELSE IF in.getattribute.found THEN in.getattribute.res ELSE <<>>

\* the methods execute_subscope_by_name found and ran in _check_getattr
CheckGetattrCalls(in) ==
    LET first == IF in.getattr.found THEN in.getattr.res ELSE <<>>
    IN (IF in.getattr.found THEN <<"__getattr__">> ELSE <<>>)
       \o (IF first = <<>> /\ in.getattribute.found THEN <<"__getattribute__">> ELSE <<>>)

\* whether _names_to_types reaches `types = self._check_getattr(self.scope)`
RunsCheckGetattr(in, names) ==
    /\ (IF IsSourceName(in) THEN FlowWalk(in, 1) ELSE <<>>) = <<>>
    /\ names = <<>>
    /\ in.scope = "instance"

NamesToTypes(in, names) ==
    LET n == IF IsSourceName(in) THEN FlowWalk(in, 1) ELSE <<>>
    IN IF n # <<>> THEN n
       ELSE IF names = <<>> /\ in.scope = "instance" THEN CheckGetattr(in)
       ELSE GeneralTypes(names)

\* the report of find: nothing found, and the reference is not the name of a
\* parameter; a str or unicode name_str is never reported
ReportAlways(in, names, types) ==
    IF in.global THEN <<"name-error">> ELSE <<"attribute-error">>
Report(in, names, types) ==
    IF names = <<>> /\ types = <<>> /\ in.nameStr # "param_name" /\ in.nameStr # "string"
    THEN IF in.global THEN <<"name-error">> ELSE <<"attribute-error">>
    ELSE <<>>

\* r.get_descriptor_returns exists
HasDescriptorGet(v) == v \in {"Desc", "inst_B"}

\* desc_return(self.scope): "self" in the collaborator's answer stands for the
\* descriptor object (`return self` in `__get__`)
DescriptorReturns(gets, v) == [i \in 1..Len(gets) |-> IF gets[i] = "self" THEN v ELSE gets[i]]

RECURSIVE ResolveDescriptorsKeeping(_, _)
ResolveDescriptorsKeeping(gets, types) ==
    IF types = <<>> THEN <<>>
    ELSE <<Head(types)>> \o (IF HasDescriptorGet(Head(types))
                             THEN DescriptorReturns(gets, Head(types)) ELSE <<>>)
         \o ResolveDescriptorsKeeping(gets, Tail(types))

\* _resolve_descriptors(types)
RECURSIVE ResolveDescriptors(_, _)
ResolveDescriptors(gets, types) ==
    IF types = <<>> THEN <<>>
    ELSE (IF HasDescriptorGet(Head(types))
          THEN DescriptorReturns(gets, Head(types))
          ELSE <<Head(types)>>)
         \o ResolveDescriptors(gets, Tail(types))

\* isinstance(self.scope, (er.Class, er.Instance)) and not search_global
UsesDescriptors(in) == in.scope \in {"class", "instance"} /\ ~in.global

FindReturn(in, types) ==
    IF UsesDescriptors(in) THEN ResolveDescriptors(in.gets, types) ELSE types

\* ---- the inputs
FindName(k, v, vals) == [NameRec(1, TRUE, k, "none", v) EXCEPT !.vals = vals]

FindVariants ==
    {FindName("expr_stmt", "REACHABLE", <<"Desc", "int">>),
     FindName("expr_stmt", "UNREACHABLE", <<"str">>),
     FindName("expr_stmt", "UNSURE", <<>>),
     FindName("funcdef", "REACHABLE", <<>>)}

\* a names dictionary holds no or one name for the identifier here; longer
\* lists are what SpecLookup runs names_dict_lookup on
FindDicts == {<<>>} \cup {<<n>> : n \in FindVariants}

\* the magic function name that equals the identifier, if there is one
MagicName == [FindName("magic", "REACHABLE", <<"str">>) EXCEPT !.pos = 0]

FindConds ==
    {CondRec("isinstance", "x", <<"A">>), CondRec("isinstance", "x", <<"B", "A">>),
     CondRec("isinstance", "y", <<"A">>), CondRec("keyword", "x", <<"A">>)}

FlowNode(kind, cond, asserts) == [kind |-> kind, cond |-> cond, asserts |-> asserts]

FlowNodes ==
    {FlowNode("if_stmt", c, <<>>) : c \in FindConds}
    \cup {FlowNode("funcdef", NoCond, <<[pos |-> 1, cond |-> CondRec("isinstance", "x", <<"A">>)],
                                        [pos |-> 3, cond |-> CondRec("isinstance", "x", <<"B">>)]>>)}

Answer(found, res) == [found |-> found, res |-> res]

FindInput(scope, global, nameStr, position, chain, magic, flows, inExec, setting, gets, getattr, getattribute) ==
    [scope |-> scope, global |-> global, nameStr |-> nameStr, position |-> position,
     chain |-> chain, magic |-> magic, flows |-> flows, inExec |-> inExec,
     setting |-> setting, gets |-> gets, getattr |-> getattr,
     getattribute |-> getattribute]

\* scopes(search_global): in global mode the first dictionary is the starting
\* scope's, paired with the position, and the dictionaries further out lie
\* beyond a function; in attribute mode every dictionary is paired with None
PairChain(dicts, global, position) ==
    [i \in 1..Len(dicts) |->
        [names |-> dicts[i],
         cutoff |-> IF global /\ i = 1 THEN position ELSE NonePos]]

FindModes ==
    {<<"file_input", TRUE>>, <<"funcexec", TRUE>>, <<"class", TRUE>>,
     <<"file_input", FALSE>>, <<"function", FALSE>>, <<"class", FALSE>>,
     <<"instance", FALSE>>, <<"instance", TRUE>>}

\* what the flow walk reads: varied only for a reference that is a pr.Name
FlowPack(flows, inExec, setting, position) ==
    [flows |-> flows, inExec |-> inExec, setting |-> setting, position |-> position]

FlowPacksUpTo(n) ==
    LET walked == SeqsUpTo(FlowNodes, n) \ {<<>>}
    IN {FlowPack(<<>>, FALSE, TRUE, 2)}
       \cup {FlowPack(f, e, TRUE, pos) : f \in walked, e \in BOOLEAN, pos \in {NonePos, 2}}
       \cup {FlowPack(f, FALSE, FALSE, 2) : f \in walked}

FlowPacks == FlowPacksUpTo(MaxFlow)

\* the walks of up to MaxFlow constructs go with the chains of at most one
\* dictionary, the longer chains with the walks of at most one construct
FlowPacksFor(dicts) == IF Len(dicts) <= 1 THEN FlowPacks ELSE FlowPacksUpTo(1)

\* what __getattr__ and __getattribute__ answer: varied only for an instance
GetattrPacks ==
    {<<ga, gb>> : ga \in {Answer(FALSE, <<>>), Answer(TRUE, <<>>)},
                  gb \in {Answer(FALSE, <<>>), Answer(TRUE, <<"int">>)}}
    \cup {<<Answer(TRUE, <<"str">>), Answer(FALSE, <<>>)>>}

FindInit ==
    /\ \E m \in FindModes, ns \in {"name", "param_name", "string"},
          dicts \in SeqsUpTo(FindDicts, MaxChain) :
          \E fp \in IF ns = "name" THEN FlowPacksFor(dicts)
                   ELSE {FlowPack(<<>>, FALSE, TRUE, 2)},
             magic \in IF ~m[2] /\ m[1] = "function" THEN {<<>>, <<MagicName>>} ELSE {<<>>},
             gets \in IF ~m[2] /\ m[1] \in {"class", "instance"}
                      THEN {<<"int">>, <<"self">>} ELSE {<<"int">>},
             g \in IF m[1] = "instance" THEN GetattrPacks
                   ELSE {<<Answer(FALSE, <<>>), Answer(FALSE, <<>>)>>} :
             fdIn = FindInput(m[1], m[2], ns, fp.position,
                              PairChain(dicts, m[2], fp.position), magic, fp.flows,
                              fp.inExec, fp.setting, gets, g[1], g[2])
    /\ fdNames = <<>>
    /\ fdConsumed = 0
    /\ fdTypes = <<>>
    /\ fdCalls = <<>>
    /\ fdDiag = <<>>
    /\ fdResult = <<>>
    /\ fdPc = "filter_name"

FindIdle ==
    /\ fdIn = FindInput("file_input", TRUE, "string", NonePos, <<>>, <<>>, <<>>, FALSE,
                        TRUE, <<"int">>, Answer(FALSE, <<>>), Answer(FALSE, <<>>))
    /\ fdNames = <<>>
    /\ fdConsumed = 0
    /\ fdTypes = <<>>
    /\ fdCalls = <<>>
    /\ fdDiag = <<>>
    /\ fdResult = <<>>
    /\ fdPc = "idle"

\* names = self.filter_name(scopes, search_global)
FindFilterName ==
    /\ fdPc = "filter_name"
    /\ LET r == FilterName(fdIn)
       IN /\ fdNames' = r.names
          /\ fdConsumed' = r.consumed
    /\ fdPc' = "names_to_types"
    /\ UNCHANGED <<fdIn, fdTypes, fdCalls, fdDiag, fdResult>>
    /\ FindFrame

\* types = self._names_to_types(names)
FindNamesToTypes ==
    /\ fdPc = "names_to_types"
    /\ fdTypes' = NamesToTypes(fdIn, fdNames)
    /\ fdCalls' = IF RunsCheckGetattr(fdIn, fdNames) THEN CheckGetattrCalls(fdIn) ELSE <<>>
    /\ fdPc' = "report"
    /\ UNCHANGED <<fdIn, fdNames, fdConsumed, fdDiag, fdResult>>
    /\ FindFrame

\* the report and the return of find
FindFinish ==
    /\ fdPc = "report"
    /\ fdDiag' = fdDiag \o Report(fdIn, fdNames, fdTypes)
    /\ fdResult' = FindReturn(fdIn, fdTypes)
    /\ fdPc' = "done"
    /\ UNCHANGED <<fdIn, fdNames, fdConsumed, fdTypes, fdCalls>>
    /\ FindFrame


(***************************************************************************)
(* _name_to_types under @memoize_default([], evaluator_is_first_arg=True)  *)
(***************************************************************************)
\* The definitions of one module, all resolved for the same evaluator and
\* scope, so that a key (evaluator, name, scope) is the definition's number.
\* A definition is a statement `name = <expr>` (or a function header): lit are
\* the values <expr> gives by itself, refs the definitions the names in <expr>
\* resolve to, in the order the evaluator resolves them.
Defs == 1..MaxDefs

DefRec(kind, lit, refs) == [kind |-> kind, lit |-> lit, refs |-> refs]

\* the subsets of Defs as ascending sequences
RECURSIVE AscendingSeq(_)
AscendingSeq(S) ==
    IF S = {} THEN <<>>
    ELSE LET m == CHOOSE x \in S : \A y \in S : x <= y
         IN <<m>> \o AscendingSeq(S \ {m})

DefVariants ==
    {DefRec("expr_stmt", lit, AscendingSeq(S)) :
        lit \in {<<>>, <<"int">>}, S \in SUBSET Defs}
    \cup {DefRec("funcdef", <<>>, <<>>)}

\* the default of the decorator: memoize_default([], ...)
MemoDefaultOfValues == <<"int">>
MemoDefault == <<>>

MemoEntry(has, val) == [has |-> has, val |-> val]

\* the body of _name_to_types once the evaluator has the values `got` of the
\* names the statement refers to: `types = []`, then the branch of the
\* definition's kind
NameToTypesBody(def, got) ==
    IF def.kind \in EvaluatedKinds THEN def.lit \o got ELSE <<def.kind>>

Frame(key, idx, got) == [key |-> key, idx |-> idx, got |-> got]

StackKeys == {rsStack[i].key : i \in 1..Len(rsStack)}

ResolveInit ==
    /\ rsProg \in [Defs -> DefVariants]
    /\ rsStart \in Defs
    /\ rsMemo = [d \in Defs |-> MemoEntry(FALSE, <<>>)]
    /\ rsStack = <<>>
    /\ rsHits = {}
    /\ rsResult = <<>>
    /\ rsPc = "call"

ResolveIdle ==
    /\ rsProg = <<>>
    /\ rsStart = 1
    /\ rsMemo = <<>>
    /\ rsStack = <<>>
    /\ rsHits = {}
    /\ rsResult = <<>>
    /\ rsPc = "idle"

\* the wrapper on a key that is not in the memo: memo[key] = default, then the
\* function runs
EnterCall(key) ==
    /\ rsMemo' = [rsMemo EXCEPT ![key] = MemoEntry(TRUE, MemoDefault)]
    /\ rsStack' = Append(rsStack, Frame(key, 1, <<>>))

\* the top-level call _name_to_types(evaluator, name, scope)
ResolveStart ==
    /\ rsPc = "call"
    /\ EnterCall(rsStart)
    /\ rsPc' = "run"
    /\ UNCHANGED <<rsProg, rsStart, rsHits, rsResult>>
    /\ ResolveFrame

Top == rsStack[Len(rsStack)]
TopDef == rsProg[Top.key]

\* the evaluator resolves the next name of the statement: the key is in the
\* memo, and the wrapper returns memo[key]
ResolveMemoHit ==
    /\ rsPc = "run"
    /\ Top.idx <= Len(TopDef.refs)
    /\ LET key == TopDef.refs[Top.idx]
       IN /\ rsMemo[key].has
          /\ rsHits' = rsHits \cup {[key |-> key, val |-> rsMemo[key].val,
                                     running |-> key \in StackKeys]}
          /\ rsStack' = [rsStack EXCEPT ![Len(rsStack)] =
                            Frame(Top.key, Top.idx + 1, Top.got \o rsMemo[key].val)]
    /\ UNCHANGED <<rsProg, rsStart, rsMemo, rsResult, rsPc>>
    /\ ResolveFrame

\* the same with a key that is not in the memo: the nested call runs
ResolveEnter ==
    /\ rsPc = "run"
    /\ Top.idx <= Len(TopDef.refs)
    /\ LET key == TopDef.refs[Top.idx]
       IN /\ ~rsMemo[key].has
          /\ EnterCall(key)
    /\ UNCHANGED <<rsProg, rsStart, rsHits, rsResult, rsPc>>
    /\ ResolveFrame

\* the function returns: memo[key] = rv, and the caller goes on with rv
ResolveReturn ==
    /\ rsPc = "run"
    /\ Top.idx > Len(TopDef.refs)
    /\ LET rv == NameToTypesBody(TopDef, Top.got)
           n == Len(rsStack)
       IN /\ rsMemo' = [rsMemo EXCEPT ![Top.key] = MemoEntry(TRUE, rv)]
          /\ IF n = 1
             THEN /\ rsStack' = <<>>
                  /\ rsResult' = rv
                  /\ rsPc' = "done"
             ELSE /\ rsStack' = [SubSeq(rsStack, 1, n - 1) EXCEPT ![n - 1] =
                                    Frame(rsStack[n - 1].key, rsStack[n - 1].idx + 1,
                                          rsStack[n - 1].got \o rv)]
                  /\ UNCHANGED <<rsResult, rsPc>>
    /\ UNCHANGED <<rsProg, rsStart, rsHits>>
    /\ ResolveFrame


(***************************************************************************)
(* _eval_param                                                             *)
(***************************************************************************)
\* The parameter and what surrounds it:
\*   inClass     func.parent.get_parent_until((pr.Class, pr.Function)) is a
\*               pr.Class
\*   positionNr  param.position_nr
\*   executed    isinstance(param, ExecutedParam)
\*   scopeInst   isinstance(scope, er.InstanceElement)
\*   genInit     func is the `__init__` of a generated instance, an
\*               er.InstanceElement: the param is replaced by
\*               func.var.params[param.position_nr]
\*   docs        docstrings.follow_param(evaluator, param)
\*   bound       param.eval(evaluator) of an ExecutedParam
\*   searched    dynamic.search_params(evaluator, param)
\*   stars       param.stars
\*   default     whether param.default is there, and what it evaluates to
ParamInput(inClass, positionNr, executed, scopeInst, genInit, docs, bound, searched, stars, default) ==
    [inClass |-> inClass, positionNr |-> positionNr, executed |-> executed,
     scopeInst |-> scopeInst, genInit |-> genInit, docs |-> docs, bound |-> bound,
     searched |-> searched, stars |-> stars, default |-> default]

NoDefault == [has |-> FALSE, vals |-> <<>>]

ParamDefaults == {NoDefault, [has |-> TRUE, vals |-> <<>>], [has |-> TRUE, vals |-> <<"default">>]}

\* a source and the values it gave
Used(source, vals) == [source |-> source, vals |-> vals]

\* cls is a pr.Class, the param is the first one and no ExecutedParam
IsSelfParam(in) == in.inClass /\ in.positionNr = 0 /\ ~in.executed

\* the instance the self parameter stands for
SelfValue(in) == IF in.scopeInst THEN <<"scope.instance">> ELSE <<"generated_instance">>

\* after `param = func.var.params[param.position_nr]` the param is the
\* function's own pr.Param
IsExecutedParam(in) == in.executed /\ ~in.genInit

\* evaluator.execute of the builtin tuple or dict
StarContainer(stars) == IF stars = 1 THEN <<"tuple()">> ELSE <<"dict()">>

\* if param.default: res_new += evaluator.eval_element(param.default)
DefaultPart(in, res) ==
    IF in.default.has THEN <<Used("default", in.default.vals)>> ELSE <<>>

\* the sources _eval_param takes values from, in the order it adds them
EvalParamUsed(in) ==
    IF IsSelfParam(in) THEN <<Used("self", SelfValue(in))>>
    ELSE IF in.docs # <<>> THEN <<Used("docs", in.docs)>>
    ELSE IF IsExecutedParam(in) THEN <<Used("bound", in.bound)>>
    ELSE LET found == <<Used("search", in.searched)>>
             first == IF in.searched = <<>> /\ in.stars # 0
                      THEN Append(found, Used("container", StarContainer(in.stars)))
                      ELSE found
             res == IF in.searched = <<>> /\ in.stars # 0
                    THEN StarContainer(in.stars) ELSE in.searched
         IN first \o DefaultPart(in, res)

RECURSIVE ValuesOf(_)
ValuesOf(used) == IF used = <<>> THEN <<>> ELSE Head(used).vals \o ValuesOf(Tail(used))

ParamInit ==
    /\ epIn \in {ParamInput(c, n, e, si, gi, d, b, sr, st, df) :
                    c \in BOOLEAN, n \in 0..1, e \in BOOLEAN, si \in BOOLEAN,
                    gi \in BOOLEAN, d \in {<<>>, <<"doc">>}, b \in {<<>>, <<"arg">>},
                    sr \in {<<>>, <<"call">>}, st \in 0..2, df \in ParamDefaults}
    /\ epUsed = <<>>
    /\ epResult = <<>>
    /\ epPc = "call"

ParamIdle ==
    /\ epIn = ParamInput(FALSE, 0, FALSE, FALSE, FALSE, <<>>, <<>>, <<>>, 0, NoDefault)
    /\ epUsed = <<>>
    /\ epResult = <<>>
    /\ epPc = "idle"

\* one call of _eval_param(evaluator, param, scope)
EvalParam ==
    /\ epPc = "call"
    /\ epUsed' = EvalParamUsed(epIn)
    /\ epResult' = ValuesOf(EvalParamUsed(epIn))
    /\ epPc' = "done"
    /\ UNCHANGED epIn
    /\ ParamFrame

(***************************************************************************)
(* _name_to_types on a name whose definition is a pr.GlobalStmt            *)
(***************************************************************************)
\* The scopes around the global statement, the one that holds it first and
\* the module last, and what evaluator.find_types(scope, str(name)) gives in
\* each of them.
GlobalInput(scopes, found) == [scopes |-> scopes, found |-> found]

GlobalScopeChains ==
    {Append(inner, "file_input") : inner \in SeqsUpTo({"funcdef", "classdef"}, MaxNest)}

FoundValues == {<<>>, <<"int">>, <<"str">>}

\* typ.get_parent_scope(): the scope that holds the statement
GetParentScope(in) == 1

\* evaluator.find_types(scope, str(name))
FindTypes(in, scope) == in.found[scope]

GlobalInit ==
    /\ \E scopes \in GlobalScopeChains :
          \E found \in [1..Len(scopes) -> FoundValues] :
              glIn = GlobalInput(scopes, found)
    /\ glAsked = 0
    /\ glResult = <<>>
    /\ glPc = "call"

GlobalIdle ==
    /\ glIn = GlobalInput(<<"file_input">>, <<(<<>>)>>)
    /\ glAsked = 0
    /\ glResult = <<>>
    /\ glPc = "idle"

\* elif isinstance(typ, pr.GlobalStmt):
\*     types += evaluator.find_types(typ.get_parent_scope(), str(name))
NameToTypesGlobal ==
    /\ glPc = "call"
    /\ glAsked' = GetParentScope(glIn)
    /\ glResult' = FindTypes(glIn, GetParentScope(glIn))
    /\ glPc' = "done"
    /\ UNCHANGED glIn
    /\ GlobalFrame

(***************************************************************************)
(* The specifications.                                                     *)
(***************************************************************************)
InitChain == ChainInit /\ LookupIdle /\ FindIdle /\ ResolveIdle /\ ParamIdle /\ GlobalIdle
NextChain == ChainScope \/ ChainLeaveLoop \/ ChainBuiltins
SpecChain == InitChain /\ [][NextChain]_vars

InitLookup == LookupInit /\ ChainIdle /\ FindIdle /\ ResolveIdle /\ ParamIdle /\ GlobalIdle
NextLookup == Lookup
SpecLookup == InitLookup /\ [][NextLookup]_vars

InitPrivate == PrivateInit /\ ChainIdle /\ FindIdle /\ ResolveIdle /\ ParamIdle /\ GlobalIdle
NextPrivate == Lookup
SpecPrivate == InitPrivate /\ [][NextPrivate]_vars

InitFind == FindInit /\ ChainIdle /\ LookupIdle /\ ResolveIdle /\ ParamIdle /\ GlobalIdle
NextFind == FindFilterName \/ FindNamesToTypes \/ FindFinish
SpecFind == InitFind /\ [][NextFind]_vars

InitResolve == ResolveInit /\ ChainIdle /\ LookupIdle /\ FindIdle /\ ParamIdle /\ GlobalIdle
NextResolve == ResolveStart \/ ResolveMemoHit \/ ResolveEnter \/ ResolveReturn
SpecResolve == InitResolve /\ [][NextResolve]_vars
\* the evaluation is one thread that always takes its next step
FairSpecResolve == SpecResolve /\ WF_vars(NextResolve)

InitParam == ParamInit /\ ChainIdle /\ LookupIdle /\ FindIdle /\ ResolveIdle /\ GlobalIdle
NextParam == EvalParam
SpecParam == InitParam /\ [][NextParam]_vars

InitGlobal == GlobalInit /\ ChainIdle /\ LookupIdle /\ FindIdle /\ ResolveIdle /\ ParamIdle
NextGlobal == NameToTypesGlobal
SpecGlobal == InitGlobal /\ [][NextGlobal]_vars

(***************************************************************************)
(* Claims about the scope chain.                                           *)
(***************************************************************************)
ChKind(i) == chScopes[i].kind
FuncBefore(i) == \E j \in 1..(i - 1) : ChKind(j) = "funcdef"
FuncUpTo(i) == \E j \in 1..i : ChKind(j) = "funcdef"
YieldedFor(i) == {p \in 1..Len(chOut) : chOut[p].scope = i}

\* C7: in global mode no names dictionary of a class scope (source class or
\* native class) that lies outside a function scope already walked through is
\* ever yielded; a class scope reached before any function scope has been
\* walked through has each of its dictionaries yielded once the walk passed it.
C7_ClassSkippedAfterFunction ==
    \A i \in 1..Len(chScopes) :
        IsClassScope(ChKind(i)) =>
            IF FuncBefore(i)
            THEN YieldedFor(i) = {}
            ELSE chIdx > i =>
                    \A d \in 1..chScopes[i].nd :
                        \E p \in YieldedFor(i) : chOut[p].dict = d

C7_Witness ==
    /\ chPc = "done"
    /\ \E i \in 1..Len(chScopes) :
          IsClassScope(ChKind(i)) /\ FuncBefore(i) /\ YieldedFor(i) = {}
    /\ \E i \in 1..Len(chScopes) :
          IsClassScope(ChKind(i)) /\ ~FuncBefore(i) /\ YieldedFor(i) # {}

\* C8: the global-mode chain is finite and ordered: source scopes appear
\* strictly innermost to outermost (dictionaries of one scope in their own
\* order), the last source scope is the module, the chain ends with the
\* built-in namespace's dictionaries, each paired with None, and no built-in
\* dictionary precedes a source scope's; until the chain is complete the
\* generator can always take another step.
C8_ChainOrderedEndsWithBuiltins ==
    /\ \A p, q \in 1..Len(chOut) :
          p < q =>
             /\ chOut[p].scope = 0 => chOut[q].scope = 0
             /\ (chOut[p].scope # 0 /\ chOut[q].scope # 0) =>
                   \/ chOut[p].scope < chOut[q].scope
                   \/ chOut[p].scope = chOut[q].scope /\ chOut[p].dict < chOut[q].dict
    /\ \A p \in 1..Len(chOut) : chOut[p].scope = 0 => chOut[p].pos = NonePos
    /\ Len(chOut) <= Len(chScopes) * MaxDicts + chBuiltin
    /\ chIdx <= Len(chScopes) + 1
    /\ chPc # "done" => ENABLED ChainNext
    /\ chPc = "done" =>
          LET n == Len(chOut) - chBuiltin
          IN /\ n >= 1
             /\ \A d \in 1..chBuiltin :
                   chOut[n + d] = [scope |-> 0, dict |-> d, pos |-> NonePos]
             /\ chOut[n].scope = Len(chScopes)
             /\ ChKind(chOut[n].scope) = "file_input"

C8_Witness ==
    /\ chPc = "done"
    /\ chCaller # NonePos
    /\ Len(chScopes) >= 3
    /\ ~FuncUpTo(Len(chScopes))
    /\ chBuiltin >= 2
    /\ chOut[Len(chOut)] = [scope |-> 0, dict |-> chBuiltin, pos |-> NonePos]

\* C9: a dictionary of the starting scope or of an enclosing scope up to and
\* including the innermost enclosing function is paired with the caller's
\* cutoff; a dictionary of any scope further out (the built-in namespace
\* included) is paired with None, and the cutoff never comes back.
C9_CutoffResetAtFunction ==
    /\ \A p \in 1..Len(chOut) :
          LET i == chOut[p].scope
          IN IF i # 0
             THEN chOut[p].pos = (IF FuncBefore(i) THEN NonePos ELSE chCaller)
             ELSE FuncUpTo(Len(chScopes)) => chOut[p].pos = NonePos
    /\ chPc # "idle" =>
          chPos = (IF FuncBefore(chIdx) THEN NonePos ELSE chCaller)

C9_Witness ==
    /\ chPc = "done"
    /\ chCaller # NonePos
    /\ \E i \in 2..Len(chScopes) :
          /\ ChKind(i) = "funcdef"
          /\ ~FuncBefore(i)
          /\ \E p \in YieldedFor(i) : chOut[p].pos = chCaller
          /\ \E p \in YieldedFor(i - 1) : chOut[p].pos = chCaller
          /\ \E p \in YieldedFor(Len(chScopes)) : chOut[p].pos = NonePos

(***************************************************************************)
(* Claims about names_dict_lookup and filter_definition_names.             *)
(***************************************************************************)
\* the names live in a lexical scope: neither an instance's nor a native one
IsLexical(ctx) ==
    /\ ~ctx.selfInstance
    /\ ctx.nameScope \in {"source", "funcexec", "lambdaexec"}
    /\ ~ctx.compiledName
    /\ ~ctx.parentCompiled

PosOf(names) == {names[i].pos : i \in 1..Len(names)}

\* C1: in a lexical scope names_dict_lookup returns, by descending start_pos,
\* exactly the candidates (the names filter_definition_names kept) whose
\* verdict is not UNREACHABLE and that have no textually later candidate with
\* verdict REACHABLE: the list stops with the first REACHABLE candidate.
C1_ReachableCandidatesNewestFirst ==
    (lkPc = "done" /\ IsLexical(lkCtx)) =>
        /\ \A i, j \in 1..Len(lkResult) : i < j => lkResult[i].pos > lkResult[j].pos
        /\ PosOf(lkResult) =
              {c.pos : c \in {x \in Range(lkFiltered) :
                                /\ x.verdict # "UNREACHABLE"
                                /\ \A y \in Range(lkFiltered) :
                                      y.pos > x.pos => y.verdict # "REACHABLE"}}

\* two UNSURE definitions (the branches of an if/else) are both returned, the
\* nearer one first, and the unconditional definition before them ends the list
C1_Witness ==
    /\ lkPc = "done"
    /\ IsLexical(lkCtx)
    /\ Len(lkFiltered) = 3
    /\ lkFiltered[3].verdict = "UNSURE"
    /\ lkFiltered[2].verdict = "UNSURE"
    /\ lkFiltered[1].verdict = "REACHABLE"
    /\ Len(lkResult) = 3
    /\ lkResult[1].pos = 3
    /\ lkResult[2].pos = 2

\* a later unconditional reassignment hides the earlier definition
C1_WitnessShadowed ==
    /\ lkPc = "done"
    /\ IsLexical(lkCtx)
    /\ Len(lkFiltered) = 2
    /\ lkFiltered[2].verdict = "REACHABLE"
    /\ lkFiltered[1].verdict = "REACHABLE"
    /\ PosOf(lkResult) = {2}

\* C4: for a private identifier (`__x`) defined in class n.cls,
\* filter_definition_names removes every occurrence when the lookup comes from
\* outside that class's methods and keeps every occurrence (that is a
\* definition before the cutoff) when it comes from inside them.
C4_PrivateFilteredByOrigin ==
    (lkPc = "done" /\ lkCtx.private) =>
        \A i \in 1..Len(lkNames) :
            LET n == lkNames[i]
            IN IF lkCtx.originCls # n.cls
               THEN n \notin Range(lkFiltered)
               ELSE (n.isdef /\ (lkCutoff = NonePos \/ n.pos < lkCutoff)) =>
                       n \in Range(lkFiltered)

\* C4, the removal loop alone: whenever filter_private_variable says so for
\* every occurrence, no occurrence is left.
C4_NoOccurrenceSkipped ==
    (lkPc = "done" /\ lkCtx.private) =>
        \A i \in 1..Len(lkNames) :
            FilterPrivateVariable(lkCtx, lkNames[i]) => lkNames[i] \notin Range(lkFiltered)

(***************************************************************************)
(* Claims about NameFinder.find.                                           *)
(***************************************************************************)
MinOf(S) == CHOOSE x \in S : \A y \in S : x <= y

FilterNameRan == fdPc \in {"names_to_types", "report", "done"}

\* what names_dict_lookup gives for the i-th pair of the chain
ChainLookup(i) ==
    NamesDictLookup(FindLookupCtx(fdIn.scope), fdIn.chain[i].names, fdIn.chain[i].cutoff).names

ChainHits == {i \in 1..Len(fdIn.chain) : ChainLookup(i) # <<>>}

\* fdNames are the names of the k-th dictionary's lookup, a header's name
\* replaced by its wrapper's
NamesAreLookupOf(k) ==
    /\ Len(fdNames) = Len(ChainLookup(k))
    /\ \A j \in 1..Len(fdNames) :
          /\ [fdNames[j] EXCEPT !.wrapped = FALSE] = ChainLookup(k)[j]
          /\ fdNames[j].wrapped <=> fdNames[j].kind \in {"funcdef", "classdef", "file_input"}

FirstHitDecides ==
    IF ChainHits = {}
    THEN fdNames = <<>> /\ fdConsumed = Len(fdIn.chain)
    ELSE fdConsumed = MinOf(ChainHits) /\ NamesAreLookupOf(MinOf(ChainHits))

\* C10 as stated: filter_name takes the pairs in chain order and returns the
\* names of the first dictionary whose lookup is not empty, taking no pair
\* after it; with no such dictionary it takes every pair and returns nothing.
C10_Original ==
    FilterNameRan => FirstHitDecides

\* C10 as amended: the same, except for an attribute lookup on a function
\* scope, where filter_name returns the function's magic names that equal the
\* identifier and takes no pair of the chain at all.
C10_FirstNonEmptyDictionary ==
    FilterNameRan =>
        IF IsMagicLookup(fdIn)
        THEN fdNames = fdIn.magic /\ fdConsumed = 0
        ELSE FirstHitDecides

C10_Witness ==
    /\ fdPc = "done"
    /\ ~IsMagicLookup(fdIn)
    /\ Len(fdIn.chain) = 2
    /\ ChainLookup(1) = <<>>
    /\ fdIn.chain[1].names # <<>>
    /\ ChainLookup(2) # <<>>
    /\ fdConsumed = 2
    /\ fdNames # <<>>

NothingFound == fdNames = <<>> /\ fdTypes = <<>>

ReportFor(in) == IF in.global THEN <<"name-error">> ELSE <<"attribute-error">>

\* C5 as stated: when neither a name nor a value was found, find returns the
\* empty list and hands one report to the sink, 'name-error' in global mode
\* and the attribute error in attribute mode; otherwise it reports nothing.
C5_Original ==
    fdPc = "done" =>
        /\ NothingFound => (fdResult = <<>> /\ fdDiag = ReportFor(fdIn))
        /\ ~NothingFound => fdDiag = <<>>

\* C5 as amended: the report is made only for a reference that is a pr.Name
\* and not the name of a parameter; for a plain string or a parameter's name
\* find returns the empty list and reports nothing.
C5_NotFoundIsReported ==
    fdPc = "done" =>
        /\ NothingFound => fdResult = <<>>
        /\ (NothingFound /\ fdIn.nameStr = "name") => fdDiag = ReportFor(fdIn)
        /\ (~NothingFound \/ fdIn.nameStr # "name") => fdDiag = <<>>

C5_Witness ==
    /\ fdPc = "done"
    /\ fdIn.nameStr = "name"
    /\ ~fdIn.global
    /\ fdIn.scope = "instance"
    /\ Len(fdIn.chain) = 2
    /\ NothingFound
    /\ fdResult = <<>>
    /\ fdDiag = <<"attribute-error">>

\* the values that take the place of types[i]
Replacement(i) ==
    IF HasDescriptorGet(fdTypes[i])
    THEN DescriptorReturns(fdIn.gets, fdTypes[i])
    ELSE <<fdTypes[i]>>

RECURSIVE OffsetOf(_)
OffsetOf(i) == IF i = 1 THEN 0 ELSE OffsetOf(i - 1) + Len(Replacement(i - 1))

DescriptorsReplacedInOrder ==
    /\ Len(fdResult) = OffsetOf(Len(fdTypes) + 1)
    /\ \A i \in 1..Len(fdTypes) :
          \A k \in 1..Len(Replacement(i)) :
              fdResult[OffsetOf(i) + k] = Replacement(i)[k]

\* C6 as amended: in attribute mode on a class or instance scope find returns
\* the resolved values in their order, each value with the descriptor-get
\* capability replaced by what its invocation returns and every other value
\* unchanged; in global mode or on another scope it returns the resolved
\* values as they are.
C6_DescriptorsResolved ==
    fdPc = "done" =>
        IF UsesDescriptors(fdIn) THEN DescriptorsReplacedInOrder ELSE fdResult = fdTypes

\* C6 as stated: the same, and no value with the capability is ever part of
\* the result.
C6_Original ==
    fdPc = "done" =>
        /\ IF UsesDescriptors(fdIn) THEN DescriptorsReplacedInOrder ELSE fdResult = fdTypes
        /\ UsesDescriptors(fdIn) =>
              \A i \in 1..Len(fdTypes) :
                  HasDescriptorGet(fdTypes[i]) => fdTypes[i] \notin Range(fdResult)

C6_Witness ==
    /\ fdPc = "done"
    /\ UsesDescriptors(fdIn)
    /\ fdIn.gets = <<"int">>
    /\ fdTypes = <<"Desc", "int">>
    /\ fdResult = <<"int", "int">>

\* the flow constructs around the reference that give a narrowing
FlowYields ==
    {i \in 1..Len(fdIn.flows) :
        CheckFlowInformation(fdIn.setting, fdIn.flows[i], fdIn.position, "x") # <<>>}

\* what find returns when nothing narrows
GeneralResult ==
    FindReturn(fdIn, IF fdNames = <<>> /\ fdIn.scope = "instance"
                     THEN CheckGetattr(fdIn) ELSE GeneralTypes(fdNames))

\* C3: for a reference that is a pr.Name, find returns exactly the narrowed
\* values of the innermost enclosing flow construct that gives a narrowing,
\* and exactly the result of the general lookup when no construct gives one.
C3_NarrowingOverridesLookup ==
    (fdPc = "done" /\ IsSourceName(fdIn)) =>
        IF FlowYields # {}
        THEN fdResult = CheckFlowInformation(fdIn.setting, fdIn.flows[MinOf(FlowYields)],
                                             fdIn.position, "x")
        ELSE fdResult = GeneralResult

(***************************************************************************)
(* Claims about _name_to_types.                                            *)
(***************************************************************************)
ResolveGuarded ==
    \* no key is in progress twice
    /\ \A i, j \in 1..Len(rsStack) : i # j => rsStack[i].key # rsStack[j].key
    \* a call answered while its key was in progress got the empty list
    /\ \A h \in rsHits : h.running => h.val = <<>>
    \* a resolution that reaches no value of its own ends empty
    /\ rsPc = "done" =>
          /\ rsStack = <<>>
          /\ rsProg[rsStart] = DefRec("expr_stmt", <<>>, <<rsStart>>) =>
                rsResult = <<>>

\* C2: every resolution ends, whatever cycle the definitions form; while
\* _name_to_types is in progress for a key every call with that key returns the
\* empty list without running the function again, and resolving `x = x` (no
\* other definition of x) returns the empty list.
C2_SelfReferenceTerminates ==
    [](ResolveGuarded) /\ <>(rsPc = "done")

C2_Witness ==
    /\ rsPc = "done"
    /\ rsProg[rsStart] = DefRec("expr_stmt", <<>>, <<rsStart>>)
    /\ rsHits = {[key |-> rsStart, val |-> <<>>, running |-> TRUE]}
    /\ rsResult = <<>>

(***************************************************************************)
(* Claims about the __getattr__ / __getattribute__ fallback.               *)
(***************************************************************************)
NamesToTypesRan == fdPc \in {"report", "done"}

\* the flow walk of _names_to_types gave nothing
NoNarrowing == (IF IsSourceName(fdIn) THEN FlowWalk(fdIn, 1) ELSE <<>>) = <<>>

\* the first non-empty answer of __getattr__, then __getattribute__
FirstAnswer ==
    IF fdIn.getattr.found /\ fdIn.getattr.res # <<>> THEN fdIn.getattr.res
    ELSE IF fdIn.getattribute.found THEN fdIn.getattribute.res
    ELSE <<>>

\* the order and the result of the fallback: a method runs only on an
\* instance scope whose lookup gave no name, __getattr__ before
\* __getattribute__, __getattribute__ only when __getattr__ is missing or
\* gave nothing, and the values are the first non-empty answer
FallbackOrderAndResult ==
    /\ fdCalls # <<>> => (fdIn.scope = "instance" /\ fdNames = <<>>)
    /\ fdCalls \in {<<>>, <<"__getattr__">>, <<"__getattribute__">>,
                    <<"__getattr__", "__getattribute__">>}
    /\ "__getattribute__" \in Range(fdCalls) =>
          (~fdIn.getattr.found \/ fdIn.getattr.res = <<>>)
    /\ (fdIn.scope = "instance" /\ fdNames = <<>> /\ NoNarrowing) =>
          /\ fdTypes = FirstAnswer
          /\ fdIn.getattr.found => fdCalls[1] = "__getattr__"

\* C11: the fallback runs only for attribute access on an instance scope
\* whose lookup gave no name, __getattr__ first and __getattribute__ only when
\* __getattr__ is missing or gave nothing, the first non-empty answer being
\* the result; no method of the fallback runs in global (lexical) mode or when
\* a name was found.
C11_FallbackOnlyOnAttributeAccess ==
    NamesToTypesRan =>
        /\ FallbackOrderAndResult
        /\ fdCalls # <<>> => ~fdIn.global

(***************************************************************************)
(* Claims about the flow walk of _names_to_types.                          *)
(***************************************************************************)
\* the function around the reference: the first funcdef of the parent chain
FunctionBoundary ==
    IF \E i \in 1..Len(fdIn.flows) : fdIn.flows[i].kind = "funcdef"
    THEN CHOOSE i \in 1..Len(fdIn.flows) :
            /\ fdIn.flows[i].kind = "funcdef"
            /\ \A j \in 1..(i - 1) : fdIn.flows[j].kind # "funcdef"
    ELSE Len(fdIn.flows)

\* the constructs up to the function around the reference that give a
\* narrowing
InsideYields ==
    {i \in 1..Len(fdIn.flows) :
        /\ i <= FunctionBoundary
        /\ CheckFlowInformation(fdIn.setting, fdIn.flows[i], fdIn.position, "x") # <<>>}

\* what _names_to_types gives when nothing narrows
GeneralTypesOfFind ==
    IF fdNames = <<>> /\ fdIn.scope = "instance"
    THEN CheckGetattr(fdIn) ELSE GeneralTypes(fdNames)

\* C13: the walk inspects the constructs between the reference and the
\* nearest function around it and no construct outside that function, whether
\* the function is a syntactic one or a function execution: the values of
\* _names_to_types are the narrowing of the innermost construct inside the
\* function that gives one, and the general values when there is none.
C13_WalkStopsAtFunction ==
    (NamesToTypesRan /\ IsSourceName(fdIn)) =>
        IF InsideYields # {}
        THEN fdTypes = CheckFlowInformation(fdIn.setting, fdIn.flows[MinOf(InsideYields)],
                                            fdIn.position, "x")
        ELSE fdTypes = GeneralTypesOfFind

(***************************************************************************)
(* Claims about the candidates kept without a flow check.                  *)
(***************************************************************************)
\* a parameter, an import, or an occurrence in an instance, lambda or native
\* scope
IsExempt(ctx, n) ==
    \/ n.kind \in {"param", "import"}
    \/ ctx.nameScope \in {"instance", "lambdaexec", "compiled"}

\* C14: every candidate of names_dict_lookup that is a parameter, an import or
\* an occurrence in an instance, lambda or native scope is part of the result,
\* and flow_analysis.break_check is never asked about it.
C14_ExemptKeptWithoutCheck ==
    lkPc = "done" =>
        \A i \in 1..Len(lkFiltered) :
            IsExempt(lkCtx, lkFiltered[i]) =>
                /\ lkFiltered[i].pos \in PosOf(lkResult)
                /\ lkFiltered[i].pos \notin lkConsulted

(***************************************************************************)
(* Claims about _eval_param.                                               *)
(***************************************************************************)
\* the sources in the order of the claim: call-site search, documentation,
\* bound argument, container of a variadic parameter, default
ClaimedSources(in) ==
    <<in.searched,
      in.docs,
      IF IsExecutedParam(in) THEN in.bound ELSE <<>>,
      IF in.stars # 0 THEN StarContainer(in.stars) ELSE <<>>,
      IF in.default.has THEN in.default.vals ELSE <<>>>>

RECURSIVE FirstNonEmpty(_)
FirstNonEmpty(ss) ==
    IF ss = <<>> THEN <<>>
    ELSE IF Head(ss) # <<>> THEN Head(ss)
    ELSE FirstNonEmpty(Tail(ss))

\* C12: for a parameter that is not the self parameter _eval_param returns
\* the values of one source, the first that gives any among call-site search,
\* documentation, bound argument, variadic container and default.
C12_FirstSourceOnly ==
    (epPc = "done" /\ ~IsSelfParam(epIn)) =>
        epResult = FirstNonEmpty(ClaimedSources(epIn))

(***************************************************************************)
(* Claims about global statements.                                         *)
(***************************************************************************)
\* the module around the statement: the last scope of the chain
ModuleOf(in) == Len(in.scopes)

\* C15: for a name defined by a global statement _name_to_types returns what
\* the lookup of the identifier in the module gives, however deep the
\* statement is nested.
C15_GlobalResolvesInModule ==
    glPc = "done" =>
        /\ glAsked = ModuleOf(glIn)
        /\ glResult = FindTypes(glIn, ModuleOf(glIn))

====
